---- MODULE Spec2Model ----
(***************************************************************************)
(* A model of the Kodi Invidious plugin: the SearchHistory store, the      *)
(* InvidiousAPIClient (login, GET requests, list-response parsing,         *)
(* mutations) and the InvidiousPlugin controller (construction with        *)
(* instance autodetection, and run(), the action dispatcher).              *)
(***************************************************************************)
EXTENDS Integers, Sequences, FiniteSets, TLC

VARIABLES
    depth,        \* SearchHistory.depth
    historyFile,  \* the file at SearchHistory.history_path
    pushLog,      \* the queries given to SearchHistory.push so far, oldest first
    out,          \* what the last InvidiousPlugin.run() invocation did
    client,       \* one InvidiousAPIClient object
    clientLog,    \* what the operations on that client did, oldest first
    settings,     \* the add-on's persisted settings
    plugin,       \* what the last InvidiousPlugin.__init__ did
    response,     \* the items of a list response handed to _parse_list_response
    results,      \* the records the generator has yielded
    ppc           \* position of the parse: "ready" or "done"

vars == <<depth, historyFile, pushLog, out, client, clientLog, settings, plugin,
          response, results, ppc>>

historyVars == <<depth, historyFile, pushLog>>
clientVars == <<client, clientLog>>
initVars == <<settings, plugin>>
parseVars == <<response, results, ppc>>

(***************************************************************************)
(* Bounds of the model.                                                    *)
(***************************************************************************)
MaxDepth == 4
MaxPushes == 5

\* The query strings the user types.
Queries == {"q", "a", "b", "c"}

(***************************************************************************)
(* Sequence helpers.                                                       *)
(***************************************************************************)
Range(s) == {s[i] : i \in 1..Len(s)}

NoDuplicates(s) == \A i, j \in 1..Len(s) : s[i] = s[j] => i = j

Min(a, b) == IF a < b THEN a ELSE b

\* Python's s[:n]
Take(s, n) == SubSeq(s, 1, Min(n, Len(s)))

\* Python's s[-1]
Last(s) == s[Len(s)]

\* All sequences over S of length 0..n
SeqsUpTo(S, n) == UNION {[1..k -> S] : k \in 0..n}

\* Python's list.remove(x): drops the first occurrence of x.
ListRemove(s, x) ==
    LET first == CHOOSE i \in 1..Len(s) : s[i] = x /\ \A j \in 1..(i - 1) : s[j] # x
    IN  SubSeq(s, 1, first - 1) \o SubSeq(s, first + 1, Len(s))

(***************************************************************************)
(* SearchHistory                                                           *)
(***************************************************************************)
NoFile == [exists |-> FALSE, content |-> <<>>]

\* SearchHistory.queries
HistoryQueries(file) == IF ~file.exists THEN <<>> ELSE file.content

\* A push that forgets to remove the existing entry.
PushedQueriesKeepingOld(file, query, d) ==
    LET queries == IF file.exists THEN file.content ELSE <<>>
    IN  Take(<<query>> \o queries, d)

\* SearchHistory.push: the list written to the file.
PushedQueries(file, query, d) ==
    LET queries == IF file.exists THEN file.content ELSE <<>>
        removed == IF query \in Range(queries) THEN ListRemove(queries, query) ELSE queries
        inserted == <<query>> \o removed
    IN  Take(inserted, d)

HistoryPush(file, query, d) ==
    [exists |-> TRUE, content |-> PushedQueries(file, query, d)]

(***************************************************************************)
(* InvidiousAPIClient: state, login, requests                              *)
(***************************************************************************)
MaxItems == 2
MaxThumbs == 3

\* What the server does with a GET request (5 s timeout), with the login POST
\* and with a mutation POST/DELETE (no timeout argument).
GetStatuses == {"ok", "http_error", "timeout"}
LoginStatuses == {"ok", "http_error"}
MutationStatuses == {"ok", "not_ok"}

\* One entry of the log of HTTP requests actually sent.
Request(name, outcome, localParam) ==
    [req |-> name, outcome |-> outcome, local |-> localParam]

\* InvidiousAPIClient.__init__; username stands for "a username is set".
NewClient(hasAuth, localSetting) ==
    [username |-> hasAuth, authenticated |-> FALSE, local |-> localSetting]

\* A login that marks the client authenticated whatever the server answered.
LoginIgnoringStatus(c, status) ==
    IF ~c.username
    THEN [client |-> c, err |-> "AuthRequired", reqs |-> <<>>]
    ELSE [client |-> [c EXCEPT !.authenticated = TRUE],
          err |-> IF status = "ok" THEN "none" ELSE "HttpError",
          reqs |-> <<Request("login", IF status = "ok" THEN "ok" ELSE "HttpError", FALSE)>>]

\* InvidiousAPIClient._login
Login(c, status) ==
    IF ~c.username
    THEN [client |-> c, err |-> "AuthRequired", reqs |-> <<>>]
    ELSE IF status # "ok"
         THEN [client |-> c, err |-> "HttpError",
               reqs |-> <<Request("login", "HttpError", FALSE)>>]
         ELSE [client |-> [c EXCEPT !.authenticated = TRUE], err |-> "none",
               reqs |-> <<Request("login", "ok", FALSE)>>]

\* "if not self.authenticated: self._login()"
EnsureLogin(c, status) ==
    IF ~c.authenticated
    THEN Login(c, status)
    ELSE [client |-> c, err |-> "none", reqs |-> <<>>]

\* InvidiousAPIClient._make_get_request; hasParams is "params is not None".
MakeGetRequest(c, path, hasParams, status) ==
    IF c.local /\ ~hasParams
    THEN [err |-> "TypeError", reqs |-> <<>>]
    ELSE LET outcome == CASE status = "ok" -> "ok"
                          [] status = "http_error" -> "HttpError"
                          [] status = "timeout" -> "Timeout"
         IN  [err |-> IF outcome = "ok" THEN "none" ELSE outcome,
              reqs |-> <<Request(path, outcome, c.local)>>]

\* A mutation that goes on to its own request after a failed login.
MutationIgnoringLogin(L, path, status) ==
    [client |-> L.client,
     err |-> IF status = "ok" THEN "none" ELSE "RequestFailed",
     reqs |-> L.reqs \o <<Request(path, IF status = "ok" THEN "ok" ELSE "not_ok", FALSE)>>]

\* The body of subscribe, unsubscribe and mark_watched after the login
\* check, whose result is L: the request, "if response.ok: return None" and
\* the bare raise.
MutationAfterLogin(L, path, status) ==
    IF L.err # "none"
    THEN [client |-> L.client, err |-> L.err, reqs |-> L.reqs]
    ELSE [client |-> L.client,
          err |-> IF status = "ok" THEN "none" ELSE "RequestFailed",
          reqs |-> L.reqs
                   \o <<Request(path, IF status = "ok" THEN "ok" ELSE "not_ok", FALSE)>>]

\* The shared shape of subscribe, unsubscribe and mark_watched.
AuthMutation(c, path, loginStatus, status) ==
    MutationAfterLogin(EnsureLogin(c, loginStatus), path, status)

\* InvidiousAPIClient.subscribe
Subscribe(c, loginStatus, status) ==
    AuthMutation(c, "post auth/subscriptions", loginStatus, status)

\* InvidiousAPIClient.unsubscribe
Unsubscribe(c, loginStatus, status) ==
    AuthMutation(c, "delete auth/subscriptions", loginStatus, status)

\* InvidiousAPIClient.mark_watched
MarkWatched(c, loginStatus, status) ==
    AuthMutation(c, "post auth/history", loginStatus, status)

(***************************************************************************)
(* InvidiousAPIClient._parse_list_response                                 *)
(***************************************************************************)
\* URLs are sequences of tokens, so that a prefix test and a concatenation
\* are what they are on strings.
Url(scheme, path) ==
    IF scheme = "relative" THEN <<"//", path>> ELSE <<"https:", "//", path>>

\* The path of the i-th entry of a thumbnail list.
ThumbPath(i) == <<"t1", "t2", "t3", "t4", "t5", "t6">>[i]

PlaylistThumbnail == Url("absolute", "playlist")

Qualities == {"high", "medium"}
Heights == {48, 176, 512}
Schemes == {"relative", "absolute"}

\* Thumbnail lists; the path of an entry tells its position in the list.
VideoThumbLists(max) ==
    UNION {{[i \in 1..n |-> [quality |-> f[i], url |-> Url("absolute", ThumbPath(i))]] :
              f \in [1..n -> Qualities]} : n \in 1..max}

AuthorThumbLists(max) ==
    UNION {{[i \in 1..n |-> [height |-> f[i][1], url |-> Url(f[i][2], ThumbPath(i))]] :
              f \in [1..n -> Heights \X Schemes]} : n \in 1..max}

DefaultVideoThumbs == <<[quality |-> "high", url |-> Url("absolute", ThumbPath(1))]>>
DefaultAuthorThumbs == <<[height |-> 512, url |-> Url("relative", ThumbPath(1))]>>

Item(type, lengthSeconds, videoThumbnails, authorThumbnails) ==
    [type |-> type, lengthSeconds |-> lengthSeconds,
     videoThumbnails |-> videoThumbnails, authorThumbnails |-> authorThumbnails]

\* "absent" is an item without the "type" key.
VideoTypes == {"absent", "video", "shortVideo"}
UnknownTypes == {"hashtag", "category"}
Lengths == {-1, 0, 1, 2}

\* Items that differ in type and length.
KindItems ==
    {Item(t, l, DefaultVideoThumbs, DefaultAuthorThumbs) : t \in VideoTypes, l \in Lengths}
    \cup {Item(t, 0, DefaultVideoThumbs, DefaultAuthorThumbs) :
            t \in {"channel", "playlist"} \cup UnknownTypes}

\* Items that differ in their thumbnail lists.
ThumbItems(max) ==
    {Item("video", 1, vt, DefaultAuthorThumbs) : vt \in VideoThumbLists(max)}
    \cup {Item("channel", 0, DefaultVideoThumbs, at) : at \in AuthorThumbLists(max)}

\* A selection that always takes the last entry.
LastVideoThumbnail(thumbs) == Last(thumbs).url

\* The for/else loop over item["videoThumbnails"].
RECURSIVE VideoThumbnailFrom(_, _)
VideoThumbnailFrom(thumbs, i) ==
    IF i > Len(thumbs)
    THEN Last(thumbs).url
    ELSE IF thumbs[i].quality = "high"
         THEN thumbs[i].url
         ELSE VideoThumbnailFrom(thumbs, i + 1)

VideoThumbnail(thumbs) == VideoThumbnailFrom(thumbs, 1)

\* sorted(thumbs, key=height, reverse=True): stable, so equal heights keep
\* their order.
RECURSIVE InsertByHeightDesc(_, _)
InsertByHeightDesc(sorted, t) ==
    IF sorted = <<>>
    THEN <<t>>
    ELSE IF Head(sorted).height >= t.height
         THEN <<Head(sorted)>> \o InsertByHeightDesc(Tail(sorted), t)
         ELSE <<t>> \o sorted

RECURSIVE SortedByHeightDesc(_)
SortedByHeightDesc(thumbs) ==
    IF thumbs = <<>>
    THEN <<>>
    ELSE InsertByHeightDesc(SortedByHeightDesc(SubSeq(thumbs, 1, Len(thumbs) - 1)),
                            Last(thumbs))

\* The avatar picked for a channel item.
ChannelAvatar(thumbs) == SortedByHeightDesc(thumbs)[1]

\* "https:" + thumbnail["url"]
ChannelThumbnailUrl(thumbs) == <<"https:">> \o ChannelAvatar(thumbs).url

Result(type, thumbnailUrl, duration) ==
    [type |-> type, thumbnail_url |-> thumbnailUrl, duration |-> duration]

\* What one item of the loop yields: a sequence of zero or one record.
ParseItem(item) ==
    IF item.type \in {"absent", "video", "shortVideo"}
    THEN IF ~(item.lengthSeconds > 0)
         THEN <<>>
         ELSE <<Result("video", VideoThumbnail(item.videoThumbnails), item.lengthSeconds)>>
    ELSE IF item.type = "channel"
         THEN <<Result("channel", ChannelThumbnailUrl(item.authorThumbnails), 0)>>
         ELSE IF item.type = "playlist"
              THEN <<Result("playlist", PlaylistThumbnail, 0)>>
              ELSE <<>>

RECURSIVE ParseItemsFrom(_, _)
ParseItemsFrom(items, i) ==
    IF i > Len(items)
    THEN <<>>
    ELSE ParseItem(items[i]) \o ParseItemsFrom(items, i + 1)

\* A parse that gives up at the first item of an unknown type.
RECURSIVE ParseItemsUntilUnknown(_, _)
ParseItemsUntilUnknown(items, i) ==
    IF i > Len(items)
    THEN <<>>
    ELSE IF items[i].type \in UnknownTypes
         THEN <<>>
         ELSE ParseItem(items[i]) \o ParseItemsUntilUnknown(items, i + 1)

ParseAbortingOnUnknown(resp) ==
    IF resp.empty
    THEN [err |-> "RuntimeError", results |-> <<>>]
    ELSE [err |-> "none", results |-> ParseItemsUntilUnknown(resp.items, 1)]

\* InvidiousAPIClient._parse_list_response, run to exhaustion.  A response
\* without content raises StopIteration inside the generator, which Python
\* turns into a RuntimeError.
ParseListResponse(resp) ==
    IF resp.empty
    THEN [err |-> "RuntimeError", results |-> <<>>]
    ELSE [err |-> "none", results |-> ParseItemsFrom(resp.items, 1)]

Body(items) == [empty |-> FALSE, items |-> items]
EmptyBody == [empty |-> TRUE, items |-> <<>>]

(***************************************************************************)
(* The SearchHistory object on its own: pushes on a history of any depth.  *)
(***************************************************************************)
HistoryDepth == 20

IdleOut == [action |-> "idle", reqs |-> <<>>]
IdleClient == NewClient(FALSE, FALSE)
IdleSettings == [instance_url |-> "", auto_instance |-> FALSE]
IdlePlugin == [phase |-> "idle"]
IdleResponse == EmptyBody
IdleResults == [err |-> "none", results |-> <<>>]
IdleClientLog == [ops |-> 0]

InitHistory ==
    /\ depth \in 1..MaxDepth
    /\ historyFile = NoFile
    /\ pushLog = <<>>
    /\ out = IdleOut
    /\ client = IdleClient
    /\ clientLog = IdleClientLog
    /\ settings = IdleSettings
    /\ plugin = IdlePlugin
    /\ response = IdleResponse
    /\ results = IdleResults
    /\ ppc = "idle"

\* SearchHistory.push(q)
Push(q) ==
    /\ Len(pushLog) < MaxPushes
    /\ historyFile' = HistoryPush(historyFile, q, depth)
    /\ pushLog' = Append(pushLog, q)
    /\ UNCHANGED <<depth, out, clientVars, initVars, parseVars>>

PushAny == \E q \in Queries : Push(q)

NextHistory == PushAny

SpecHistory == InitHistory /\ [][NextHistory]_vars

\* Position of the last push of x in the log (0 when never pushed).
LastPushOf(log, x) ==
    IF x \in Range(log) THEN CHOOSE i \in 1..Len(log) : log[i] = x /\ \A j \in (i + 1)..Len(log) : log[j] # x
    ELSE 0

\* The queries pushed more recently than x.
PushedAfter(log, x) == {y \in Range(log) : LastPushOf(log, y) > LastPushOf(log, x)}

\* C1: starting from an empty history, after any sequence of pushes the stored
\* list has no duplicate, has at most depth entries, has the last pushed query
\* at the front, and is the distinct pushed queries ordered by most recent
\* push, cut to depth entries: its i-th entry is the query that exactly i-1
\* other queries were pushed after.
C1_HistoryIsRecentDistinct ==
    LET stored == HistoryQueries(historyFile)
    IN  /\ NoDuplicates(stored)
        /\ Len(stored) <= depth
        /\ Len(stored) = Min(depth, Cardinality(Range(pushLog)))
        /\ pushLog # <<>> => stored[1] = Last(pushLog)
        /\ \A i \in 1..Len(stored) :
              /\ stored[i] \in Range(pushLog)
              /\ Cardinality(PushedAfter(pushLog, stored[i])) = i - 1

\* C1 witness: Q pushed on [A, B, Q, C] gave [Q, A, B, C].
C1_Witness ==
    /\ pushLog = <<"c", "q", "b", "a", "q">>
    /\ HistoryQueries(historyFile) = <<"q", "a", "b", "c">>
    /\ depth = 4

\* A new query pushed on a full history dropped the oldest entry.
C1_WitnessFull ==
    /\ pushLog = <<"c", "b", "a", "q">>
    /\ HistoryQueries(historyFile) = <<"q", "a", "b">>
    /\ depth = 3

(***************************************************************************)
(* _parse_list_response on its own: one list response, parsed.             *)
(***************************************************************************)
Responses(maxItems, maxThumbs) ==
    {Body(items) : items \in SeqsUpTo(KindItems, maxItems)}
    \cup {Body(<<i>>) : i \in ThumbItems(maxThumbs)}
    \cup {EmptyBody}

InitParse ==
    /\ depth = HistoryDepth
    /\ historyFile = NoFile
    /\ pushLog = <<>>
    /\ out = IdleOut
    /\ client = IdleClient
    /\ clientLog = IdleClientLog
    /\ settings = IdleSettings
    /\ plugin = IdlePlugin
    /\ response \in Responses(MaxItems, MaxThumbs)
    /\ results = IdleResults
    /\ ppc = "ready"

\* list(self._parse_list_response(response))
Parse ==
    /\ ppc = "ready"
    /\ results' = ParseListResponse(response)
    /\ ppc' = "done"
    /\ UNCHANGED <<response, historyVars, out, clientVars, initVars>>

NextParse == Parse

SpecParse == InitParse /\ [][NextParse]_vars

\* The claim's rule: which items yield a record, and of which kind.
ShouldEmit(item) ==
    \/ item.type \in {"absent", "video", "shortVideo"} /\ item.lengthSeconds > 0
    \/ item.type \in {"channel", "playlist"}

ShouldBeKind(item) ==
    IF item.type \in {"absent", "video", "shortVideo"} THEN "video" ELSE item.type

\* The index of the k-th item of the list that yields a record by that rule.
EmittingIndex(items, k) ==
    CHOOSE i \in 1..Len(items) :
        /\ ShouldEmit(items[i])
        /\ Cardinality({j \in 1..i : ShouldEmit(items[j])}) = k

\* C9: the parse is an order-preserving filter-map: the k-th record comes
\* from the k-th item that is a video of positive length, a channel or a
\* playlist, and has that kind; items of non-positive length or of another
\* type yield nothing and do not stop the listing; every video record has
\* duration > 0 and every kind is video, channel or playlist.
C9_ParseIsFilterMap ==
    (ppc = "done" /\ ~response.empty) =>
        LET items == response.items
            rs == results.results
        IN  /\ results.err = "none"
            /\ Len(rs) = Cardinality({i \in 1..Len(items) : ShouldEmit(items[i])})
            /\ \A k \in 1..Len(rs) :
                  LET item == items[EmittingIndex(items, k)]
                  IN  /\ rs[k].type = ShouldBeKind(item)
                      /\ rs[k].type \in {"video", "channel", "playlist"}
                      /\ rs[k].type = "video" =>
                            rs[k].duration = item.lengthSeconds /\ rs[k].duration > 0

\* C9 witness: an item of unknown type came before a playlist, and only the
\* playlist was emitted.
C9_Witness ==
    /\ ppc = "done"
    /\ Len(response.items) = 2
    /\ response.items[1].type = "hashtag"
    /\ response.items[2].type = "playlist"
    /\ Len(results.results) = 1
    /\ results.results[1].type = "playlist"

\* The avatar of maximum declared height, the first one on a tie.
TallestAvatar(thumbs) ==
    thumbs[CHOOSE i \in 1..Len(thumbs) :
              /\ \A j \in 1..Len(thumbs) : thumbs[j].height <= thumbs[i].height
              /\ \A j \in 1..(i - 1) : thumbs[j].height < thumbs[i].height]

\* "https:" prefixed to a protocol-relative URL, an absolute one unchanged.
NormalizedUrl(url) == IF url[1] = "//" THEN <<"https:">> \o url ELSE url

\* C10: for every channel item parsed, the record's thumbnail URL is the URL
\* of the avatar of maximum height (first on a tie), with "https:" prefixed
\* when it starts with "//" and unchanged when it is already absolute.
C10_ChannelThumbnailNormalized ==
    (ppc = "done" /\ ~response.empty) =>
        \A k \in 1..Len(results.results) :
            LET item == response.items[EmittingIndex(response.items, k)]
            IN  item.type = "channel" =>
                    results.results[k].thumbnail_url
                        = NormalizedUrl(TallestAvatar(item.authorThumbnails).url)

\* The part of C10 the code does implement: the tallest avatar is picked and
\* "https:" is put before its URL.
C10_TallestAvatarPrefixed ==
    (ppc = "done" /\ ~response.empty) =>
        \A k \in 1..Len(results.results) :
            LET item == response.items[EmittingIndex(response.items, k)]
            IN  item.type = "channel" =>
                    results.results[k].thumbnail_url
                        = <<"https:">> \o TallestAvatar(item.authorThumbnails).url

(***************************************************************************)
(* One InvidiousAPIClient and the authenticated operations called on it.   *)
(***************************************************************************)
MaxOps == 4
MaxSubs == 2

VideoItem == Item("video", 1, DefaultVideoThumbs, DefaultAuthorThumbs)
ChannelItem == Item("channel", 0, DefaultVideoThumbs, DefaultAuthorThumbs)
PlaylistItem == Item("playlist", 0, DefaultVideoThumbs, DefaultAuthorThumbs)
UnknownItem == Item("hashtag", 0, DefaultVideoThumbs, DefaultAuthorThumbs)

\* The bodies a list endpoint answers with in the client and plugin models.
ListBodies ==
    {EmptyBody, Body(<<>>), Body(<<VideoItem>>), Body(<<ChannelItem, VideoItem>>),
     Body(<<UnknownItem, PlaylistItem>>)}

Videos(rs) == SelectSeq(rs, LAMBDA r : r.type = "video")

\* The parse of the body of a list request G, when G did not raise.
ParsedList(G, P) ==
    IF G.err # "none"
    THEN [err |-> G.err, reqs |-> G.reqs, results |-> <<>>]
    ELSE [err |-> P.err, reqs |-> G.reqs, results |-> P.results]

\* A list fetch: one GET, then the parse of its body.
FetchList(c, path, hasParams, status, body) ==
    ParsedList(MakeGetRequest(c, path, hasParams, status), ParseListResponse(body))

\* The rest of an operation after its login check L: nothing when the login
\* raised, else the fetch F on the client.
AfterLogin(L, F) ==
    IF L.err # "none"
    THEN [client |-> L.client, err |-> L.err, reqs |-> L.reqs, results |-> <<>>]
    ELSE [client |-> L.client, err |-> F.err, reqs |-> L.reqs \o F.reqs,
          results |-> F.results]

\* The records of a list fetch F that fetch_feed yields: the videos.
VideosOf(F) == [F EXCEPT !.results = Videos(@)]

\* InvidiousAPIClient.fetch_feed, run to exhaustion.
FetchFeed(c, loginStatus, status, body) ==
    AfterLogin(EnsureLogin(c, loginStatus),
               VideosOf(FetchList(EnsureLogin(c, loginStatus).client, "auth/feed",
                                  FALSE, status, body)))

\* The record fetch_channel_info builds from the answer G to its request;
\* the avatar URL is used as it is.
ChannelInfo(G) ==
    IF G.err # "none"
    THEN [err |-> G.err, reqs |-> G.reqs, results |-> <<>>]
    ELSE [err |-> "none", reqs |-> G.reqs,
          results |-> <<Result("channel", ChannelAvatar(DefaultAuthorThumbs).url, 0)>>]

\* InvidiousAPIClient.fetch_channel_info
FetchChannelInfo(c, status) == ChannelInfo(MakeGetRequest(c, "channels", FALSE, status))

\* first, then rest unless first raised.
Then(first, rest) ==
    IF first.err # "none"
    THEN first
    ELSE [err |-> rest.err, reqs |-> first.reqs \o rest.reqs,
          results |-> first.results \o rest.results]

\* The loop of fetch_subscribed_channels over the subscribed authors, one
\* fetch_channel_info each, until one of them raises.
RECURSIVE FetchChannelInfos(_, _, _)
FetchChannelInfos(c, chanStatuses, i) ==
    IF i > Len(chanStatuses)
    THEN [err |-> "none", reqs |-> <<>>, results |-> <<>>]
    ELSE Then(FetchChannelInfo(c, chanStatuses[i]),
              FetchChannelInfos(c, chanStatuses, i + 1))

\* A request G that yields no record itself.
NoRecords(G) == [err |-> G.err, reqs |-> G.reqs, results |-> <<>>]

\* The request of fetch_subscribed_channels for auth/subscriptions.
FetchSubscriptions(c, status) ==
    NoRecords(MakeGetRequest(c, "auth/subscriptions", FALSE, status))

\* InvidiousAPIClient.fetch_subscribed_channels, run until it ends or raises;
\* results are the records yielded before that.
FetchSubscribedChannels(c, loginStatus, status, chanStatuses) ==
    AfterLogin(EnsureLogin(c, loginStatus),
               Then(FetchSubscriptions(EnsureLogin(c, loginStatus).client, status),
                    FetchChannelInfos(EnsureLogin(c, loginStatus).client,
                                      chanStatuses, 1)))

Logins(reqs) == Len(SelectSeq(reqs, LAMBDA r : r.req = "login"))
LoginsOk(reqs) == Len(SelectSeq(reqs, LAMBDA r : r.req = "login" /\ r.outcome = "ok"))

NoOp ==
    [op |-> "none", authBefore |-> FALSE, loginStatus |-> "ok", status |-> "ok",
     err |-> "none", reqs |-> <<>>, yielded |-> 0]

InitClient ==
    /\ depth = HistoryDepth
    /\ historyFile = NoFile
    /\ pushLog = <<>>
    /\ out = IdleOut
    /\ \E hasAuth, localSetting \in BOOLEAN : client = NewClient(hasAuth, localSetting)
    /\ clientLog = [ops |-> 0, opsUnauth |-> 0, logins |-> 0, loginsOk |-> 0, last |-> NoOp]
    /\ settings = IdleSettings
    /\ plugin = IdlePlugin
    /\ response = IdleResponse
    /\ results = IdleResults
    /\ ppc = "idle"

\* The account of the operations on the client, after one more of them.
Logged(name, loginStatus, status, r) ==
    [ops |-> clientLog.ops + 1,
     opsUnauth |-> clientLog.opsUnauth + (IF client.authenticated THEN 0 ELSE 1),
     logins |-> clientLog.logins + Logins(r.reqs),
     loginsOk |-> clientLog.loginsOk + LoginsOk(r.reqs),
     last |-> [op |-> name, authBefore |-> client.authenticated,
               loginStatus |-> loginStatus, status |-> status,
               err |-> r.err, reqs |-> r.reqs,
               yielded |-> IF "results" \in DOMAIN r THEN Len(r.results) ELSE 0]]

DoFetchFeed ==
    /\ clientLog.ops < MaxOps
    /\ \E ls \in LoginStatuses, st \in GetStatuses, body \in ListBodies :
          LET r == FetchFeed(client, ls, st, body)
          IN  /\ client' = r.client
              /\ clientLog' = Logged("fetch_feed", ls, st, r)
    /\ UNCHANGED <<historyVars, out, initVars, parseVars>>

DoFetchSubscribedChannels ==
    /\ clientLog.ops < MaxOps
    /\ \E ls \in LoginStatuses, st \in GetStatuses, cs \in SeqsUpTo(GetStatuses, MaxSubs) :
          LET r == FetchSubscribedChannels(client, ls, st, cs)
          IN  /\ client' = r.client
              /\ clientLog' = Logged("fetch_subscribed_channels", ls, st, r)
    /\ UNCHANGED <<historyVars, out, initVars, parseVars>>

DoSubscribe ==
    /\ clientLog.ops < MaxOps
    /\ \E ls \in LoginStatuses, st \in MutationStatuses :
          LET r == Subscribe(client, ls, st)
          IN  /\ client' = r.client
              /\ clientLog' = Logged("subscribe", ls, st, r)
    /\ UNCHANGED <<historyVars, out, initVars, parseVars>>

DoUnsubscribe ==
    /\ clientLog.ops < MaxOps
    /\ \E ls \in LoginStatuses, st \in MutationStatuses :
          LET r == Unsubscribe(client, ls, st)
          IN  /\ client' = r.client
              /\ clientLog' = Logged("unsubscribe", ls, st, r)
    /\ UNCHANGED <<historyVars, out, initVars, parseVars>>

DoMarkWatched ==
    /\ clientLog.ops < MaxOps
    /\ \E ls \in LoginStatuses, st \in MutationStatuses :
          LET r == MarkWatched(client, ls, st)
          IN  /\ client' = r.client
              /\ clientLog' = Logged("mark_watched", ls, st, r)
    /\ UNCHANGED <<historyVars, out, initVars, parseVars>>

NextClient ==
    \/ DoFetchFeed
    \/ DoFetchSubscribedChannels
    \/ DoSubscribe
    \/ DoUnsubscribe
    \/ DoMarkWatched

SpecClient == InitClient /\ [][NextClient]_vars

AuthenticatedOps ==
    {"fetch_feed", "fetch_subscribed_channels", "subscribe", "unsubscribe", "mark_watched"}
MutationOps == {"subscribe", "unsubscribe", "mark_watched"}

\* C3 as stated: with credentials configured, once an authenticated
\* operation has run the login exchange has happened exactly once on the
\* client, however many operations followed.
C3_LoginExactlyOnce ==
    (client.username /\ clientLog.ops >= 1) => clientLog.logins = 1

\* C3 as amended: with credentials configured, an operation invoked while the
\* authenticated flag is false performs exactly one login exchange, before any
\* request of its own; one invoked while the flag is true performs none; the
\* flag is true exactly when a login was answered with success, which happens
\* at most once, and once true it stays true; the number of login exchanges is
\* the number of operations invoked while the flag was false.
C3_LoginOncePerUnauthenticatedOp ==
    (client.username /\ clientLog.ops >= 1) =>
        LET l == clientLog.last
        IN  /\ l.op \in AuthenticatedOps
            /\ ~l.authBefore =>
                  /\ Logins(l.reqs) = 1
                  /\ l.reqs[1].req = "login"
                  /\ l.loginStatus # "ok" => Len(l.reqs) = 1
            /\ l.authBefore => Logins(l.reqs) = 0 /\ client.authenticated
            /\ client.authenticated <=> (l.authBefore \/ l.loginStatus = "ok")
            /\ client.authenticated <=> clientLog.loginsOk = 1
            /\ clientLog.loginsOk <= 1
            /\ clientLog.logins = clientLog.opsUnauth

\* C3 witness: a first operation logged in, and a later one ran on the
\* authenticated client without logging in again.
C3_Witness ==
    /\ client.username
    /\ clientLog.ops = 2
    /\ clientLog.logins = 1
    /\ clientLog.last.authBefore
    /\ clientLog.last.op = "fetch_feed"
    /\ clientLog.last.err = "none"

\* C4: without credentials, subscribe, unsubscribe and mark_watched fail with
\* AuthRequired, send no request at all and leave the flag false; with
\* credentials and a login that succeeded (now or before), the mutation
\* request is sent once and the operation fails with RequestFailed exactly
\* when the server answers it with a non-success status, and returns normally
\* otherwise.
C4_MutationErrors ==
    LET l == clientLog.last
        own == SelectSeq(l.reqs, LAMBDA r : r.req # "login")
    IN  l.op \in MutationOps =>
            /\ ~client.username =>
                  /\ l.err = "AuthRequired"
                  /\ l.reqs = <<>>
                  /\ ~client.authenticated
            /\ (client.username /\ (l.authBefore \/ l.loginStatus = "ok")) =>
                  /\ Len(own) = 1
                  /\ l.err = "RequestFailed" <=> l.status = "not_ok"
                  /\ l.err = "none" <=> l.status = "ok"
                  /\ l.err \in {"none", "RequestFailed"}

\* C4 witness: mark_watched was called on a client without credentials and
\* failed with AuthRequired.
C4_Witness ==
    /\ ~client.username
    /\ clientLog.last.op = "mark_watched"
    /\ clientLog.last.err = "AuthRequired"

\* Another case of C4: subscribe after a successful login, refused by the server.
C4_WitnessRefused ==
    /\ client.username
    /\ clientLog.last.op = "subscribe"
    /\ ~clientLog.last.authBefore
    /\ clientLog.last.loginStatus = "ok"
    /\ clientLog.last.err = "RequestFailed"

(***************************************************************************)
(* InvidiousPlugin.__init__ and instance_autodetect                        *)
(***************************************************************************)
MaxCandidates == 3

\* InvidiousAPIClient.fetch_video_information: the request; the metadata it
\* returns is an input of play_video.
FetchVideoInformation(c, status) == MakeGetRequest(c, "videos", FALSE, status)

\* The uri of the i-th entry of the instance directory.
UriOf(i) == <<"u1", "u2", "u3", "u4", "u5">>[i]

\* The "api" field of a directory entry is true, false or null.
ApiValues == {"true", "false", "null"}
InstanceTypes == {"https", "http"}
ProbeStatuses == {"ok", "http_error"}

\* Instance directories: probe is what the instance answers to the probe.
CandidateLists(max) ==
    UNION {{[i \in 1..n |-> [type |-> f[i][1], api |-> f[i][2], uri |-> UriOf(i),
                             probe |-> f[i][3]]] :
              f \in [1..n -> InstanceTypes \X ApiValues \X ProbeStatuses]} :
           n \in 0..max}

NotFound == [err |-> "AutodetectionFailed", url |-> "", probed |-> <<>>, notifications |-> 1]

\* What the walk returns when the probe of entry i succeeded.
Found(data, i) ==
    [err |-> "none", url |-> data[i].uri, probed |-> <<i>>, notifications |-> 0]

\* rest, after the probe of entry i was made and failed.
AfterFailedProbe(i, rest) == [rest EXCEPT !.probed = <<i>> \o @]

\* Whether the probe of entry i succeeds: fetch_video_information on a new
\* client for it returns.
ProbeOk(data, i, localSetting) ==
    FetchVideoInformation(NewClient(FALSE, localSetting), data[i].probe).err = "none"

\* A walk that gives up at the first candidate whose probe fails.
RECURSIVE WalkStoppingAtFailedProbe(_, _, _)
WalkStoppingAtFailedProbe(data, i, localSetting) ==
    IF i > Len(data)
    THEN NotFound
    ELSE IF "https" = data[i].type /\ data[i].api # "false"
         THEN IF ProbeOk(data, i, localSetting)
              THEN Found(data, i)
              ELSE AfterFailedProbe(i, NotFound)
         ELSE WalkStoppingAtFailedProbe(data, i + 1, localSetting)

\* The loop of instance_autodetect from entry i on, and what follows it.
\* probed lists the entries whose probe was made.
RECURSIVE AutodetectWalk(_, _, _)
AutodetectWalk(data, i, localSetting) ==
    IF i > Len(data)
    THEN NotFound
    ELSE IF "https" = data[i].type /\ data[i].api # "false"
         THEN IF ProbeOk(data, i, localSetting)
              THEN Found(data, i)
              ELSE AfterFailedProbe(i, AutodetectWalk(data, i + 1, localSetting))
         ELSE AutodetectWalk(data, i + 1, localSetting)

\* InvidiousPlugin.instance_autodetect; dirStatus is whether the directory
\* could be fetched and decoded.
InstanceAutodetect(dirStatus, data, localSetting) ==
    IF dirStatus # "ok"
    THEN [err |-> "DirectoryError", url |-> "", probed |-> <<>>, notifications |-> 0]
    ELSE AutodetectWalk(data, 1, localSetting)

NewPlugin ==
    [phase |-> "new", err |-> "none", built |-> FALSE, instance_url |-> "",
     hasAuth |-> FALSE, walked |-> FALSE, candidates |-> <<>>, probed |-> <<>>,
     notifications |-> 0]

InitConstruct ==
    /\ depth = HistoryDepth
    /\ historyFile = NoFile
    /\ pushLog = <<>>
    /\ out = IdleOut
    /\ client = IdleClient
    /\ clientLog = IdleClientLog
    /\ settings \in [auto_instance : BOOLEAN, instance_url : {"", "configured"},
                     instance_username : BOOLEAN, local : BOOLEAN]
    /\ plugin = NewPlugin
    /\ response = IdleResponse
    /\ results = IdleResults
    /\ ppc = "idle"

\* __init__ around the call of instance_autodetect, which returned or raised
\* found: when it raised, nothing is stored and no client is built.
Constructed(stored, dirStatus, data, found) ==
    IF found.err # "none"
    THEN [plugin |-> [NewPlugin EXCEPT !.phase = "failed", !.err = found.err,
                          !.walked = (dirStatus = "ok"), !.candidates = data,
                          !.probed = found.probed,
                          !.notifications = found.notifications],
          settings |-> stored,
          client |-> IdleClient]
    ELSE [plugin |-> [NewPlugin EXCEPT !.phase = "constructed", !.built = TRUE,
                          !.instance_url = found.url, !.walked = TRUE,
                          !.candidates = data, !.probed = found.probed],
          settings |-> [stored EXCEPT !.instance_url = found.url],
          client |-> NewClient(FALSE, stored.local)]

\* __init__ when the instance is to be detected: the branch of line 72.
ConstructAutodetect ==
    /\ plugin.phase = "new"
    /\ settings.auto_instance /\ settings.instance_url = ""
    /\ \E dirStatus \in {"ok", "error"} :
       \E data \in IF dirStatus = "ok" THEN CandidateLists(MaxCandidates) ELSE {<<>>} :
          LET made == Constructed(settings, dirStatus, data,
                                  InstanceAutodetect(dirStatus, data, settings.local))
          IN  /\ plugin' = made.plugin
              /\ settings' = made.settings
              /\ client' = made.client
    /\ UNCHANGED <<historyVars, out, clientLog, parseVars>>

\* __init__ with an instance already configured: the else branch of line 75.
ConstructConfigured ==
    /\ plugin.phase = "new"
    /\ ~(settings.auto_instance /\ settings.instance_url = "")
    /\ LET hasAuth == settings.instance_username /\ ~settings.auto_instance
       IN  /\ client' = NewClient(hasAuth, settings.local)
           /\ plugin' = [NewPlugin EXCEPT !.phase = "constructed", !.built = TRUE,
                             !.instance_url = settings.instance_url,
                             !.hasAuth = hasAuth]
    /\ UNCHANGED <<settings, historyVars, out, clientLog, parseVars>>

\* The host starts the add-on again: a new process, the same settings.
Restart ==
    /\ plugin.phase # "new"
    /\ plugin' = NewPlugin
    /\ client' = IdleClient
    /\ UNCHANGED <<settings, historyVars, out, clientLog, parseVars>>

NextConstruct ==
    \/ ConstructAutodetect
    \/ ConstructConfigured
    \/ Restart

SpecConstruct == InitConstruct /\ [][NextConstruct]_vars

\* Whether the probe of a candidate succeeds: the metadata fetch returns.
ProbeSucceeds(c) ==
    FetchVideoInformation(NewClient(FALSE, settings.local), c.probe).err = "none"

DeclaresApi(c) == c.type = "https" /\ c.api = "true"
ApiNotDenied(c) == c.type = "https" /\ c.api # "false"

\* What autodetection has to do when qualifies[i] tells whether candidate i
\* qualifies: select the first that does, or fail when none does.
AutodetectionSelects(qualifies) ==
    LET cs == plugin.candidates
    IN  IF \E i \in 1..Len(cs) : qualifies[i]
        THEN LET first == CHOOSE i \in 1..Len(cs) :
                              qualifies[i] /\ \A j \in 1..(i - 1) : ~qualifies[j]
             IN  /\ plugin.err = "none"
                 /\ plugin.built
                 /\ plugin.instance_url = cs[first].uri
                 /\ settings.instance_url = cs[first].uri
                 /\ plugin.notifications = 0
        ELSE /\ plugin.err = "AutodetectionFailed"
             /\ plugin.notifications = 1
             /\ ~plugin.built
             /\ plugin.instance_url = ""
             /\ settings.instance_url = ""

\* C7 as stated: autodetection returns the uri of the first candidate of type
\* "https" that declares API support and passes the probe, the others are
\* skipped without stopping the walk, and when none qualifies a notification
\* is shown, AutodetectionFailed is raised, no instance_url is stored and no
\* API client is built.
C7_FirstDeclaringApi ==
    plugin.walked =>
        AutodetectionSelects([i \in 1..Len(plugin.candidates) |->
                                 /\ DeclaresApi(plugin.candidates[i])
                                 /\ ProbeSucceeds(plugin.candidates[i])])

\* C7 as amended: the same, where a candidate qualifies when its type is
\* "https", its api field is not false (true or null) and its probe succeeds;
\* the candidates probed are those of type "https" whose api field is not
\* false, up to the selected one.
C7_FirstNotDenyingApi ==
    plugin.walked =>
        /\ AutodetectionSelects([i \in 1..Len(plugin.candidates) |->
                                    /\ ApiNotDenied(plugin.candidates[i])
                                    /\ ProbeSucceeds(plugin.candidates[i])])
        /\ plugin.probed =
              SelectSeq([i \in 1..Len(plugin.candidates) |-> i],
                        LAMBDA i : /\ ApiNotDenied(plugin.candidates[i])
                                   /\ \A j \in 1..(i - 1) :
                                         plugin.candidates[j].uri # plugin.instance_url)

\* C7 witness: candidate 1 is "http", candidate 2 is "https" without API,
\* candidate 3 is "https" with API and passes the probe, and is selected.
C7_Witness ==
    /\ plugin.walked
    /\ Len(plugin.candidates) = 3
    /\ plugin.candidates[1].type = "http"
    /\ plugin.candidates[2].type = "https" /\ plugin.candidates[2].api = "false"
    /\ plugin.candidates[3].type = "https" /\ plugin.candidates[3].api = "true"
    /\ plugin.instance_url = UriOf(3)
    /\ settings.instance_url = UriOf(3)
    /\ plugin.probed = <<3>>

\* No candidate passed: the failure case of C7.
C7_WitnessFailed ==
    /\ plugin.walked
    /\ Len(plugin.candidates) = 2
    /\ plugin.probed = <<1, 2>>
    /\ plugin.err = "AutodetectionFailed"
    /\ ~plugin.built

(***************************************************************************)
(* InvidiousPlugin: the display functions, play_video and run()            *)
(***************************************************************************)
MaxStreams == 2

\* The url of the i-th entry of video_info["formatStreams"].
StreamUrl(i) == <<"s1", "s2", "s3", "s4">>[i]
DashUrl == "dashUrl"

\* What a display function or play_video did: the exception it raised, the
\* requests sent, the add-menu-entry calls (by the action each entry points
\* to), the end-of-listing calls, the resolve-playback and direct-play calls,
\* the answer of the adaptive-playback capability check, and the list item.
NoEffects ==
    [err |-> "none", reqs |-> <<>>, adds |-> <<>>, ends |-> 0, resolved |-> <<>>,
     played |-> <<>>, helper |-> "not_called", playUrl |-> "", manifest |-> "",
     markAttempted |-> FALSE]

\* The inputs of one invocation: the settings read by __init__, the
\* invocation's parameters, and what the server and the host answer.
DefaultInputs ==
    [hasAuth |-> FALSE, local |-> FALSE, show_popular |-> FALSE,
     show_trending |-> FALSE, disable_dash |-> FALSE, markSetting |-> FALSE,
     q |-> "", handle |-> 1, status |-> "ok", body |-> Body(<<>>),
     loginStatus |-> "ok", chanStatuses |-> <<>>, hasDash |-> FALSE, nStreams |-> 1,
     helperOk |-> FALSE, markStatus |-> "ok"]

\* The action the entry added for a result points to.
EntryOf(result) ==
    IF result.type = "video" THEN "play_video"
    ELSE IF result.type = "channel" THEN "view_channel"
    ELSE "view_playlist"

\* A listing that calls end_of_directory although the iteration raised.
DisplaySearchResultsAlwaysEnding(F) ==
    [NoEffects EXCEPT !.err = F.err, !.reqs = F.reqs,
                      !.adds = [i \in 1..Len(F.results) |-> EntryOf(F.results[i])],
                      !.ends = 1]

\* InvidiousPlugin.display_search_results over a fetch F: the records F
\* yielded before it ended or raised are added one by one, and
\* end_of_directory is reached only when the iteration ended normally.
DisplaySearchResults(F) ==
    [NoEffects EXCEPT !.err = F.err, !.reqs = F.reqs,
                      !.adds = [i \in 1..Len(F.results) |-> EntryOf(F.results[i])],
                      !.ends = IF F.err = "none" THEN 1 ELSE 0]

\* InvidiousAPIClient.search
Search(c, status, body) == FetchList(c, "search", TRUE, status, body)

\* InvidiousAPIClient.fetch_channel_list
FetchChannelList(c, status, body) == FetchList(c, "channels/videos", FALSE, status, body)

\* InvidiousAPIClient.fetch_playlist_list
FetchPlaylistList(c, status, body) == FetchList(c, "playlists", FALSE, status, body)

\* InvidiousAPIClient.fetch_special_list
FetchSpecialList(c, name, status, body) == FetchList(c, name, FALSE, status, body)

WithFile(effects, file) == [effects |-> effects, file |-> file]

\* A display_search_result that leaves the history alone.
DisplaySearchResultWithoutPush(file, c, in) ==
    IF in.q = ""
    THEN WithFile(NoEffects, file)
    ELSE WithFile(DisplaySearchResults(Search(c, in.status, in.body)), file)

\* InvidiousPlugin.display_search_result
DisplaySearchResult(file, c, in) ==
    IF in.q = ""
    THEN WithFile(NoEffects, file)
    ELSE WithFile(DisplaySearchResults(Search(c, in.status, in.body)),
                  HistoryPush(file, in.q, HistoryDepth))

\* InvidiousPlugin.display_new_search; in.q is what the dialog returned.
DisplayNewSearch(file, c, in) == DisplaySearchResult(file, c, in)

\* InvidiousPlugin.display_channel_list
DisplayChannelList(c, in) == DisplaySearchResults(FetchChannelList(c, in.status, in.body))

\* InvidiousPlugin.display_playlist_list
DisplayPlaylistList(c, in) == DisplaySearchResults(FetchPlaylistList(c, in.status, in.body))

\* InvidiousPlugin.display_main_menu
DisplayMainMenu(c, in) ==
    [NoEffects EXCEPT
        !.adds = <<"search_menu">>
                 \o (IF c.username THEN <<"user_feed", "user_subscriptions">> ELSE <<>>)
                 \o (IF in.show_popular THEN <<"popular">> ELSE <<>>)
                 \o (IF in.show_trending THEN <<"trending">> ELSE <<>>),
        !.ends = 1]

\* InvidiousPlugin.display_search_submenu
DisplaySearchSubmenu(file) ==
    [NoEffects EXCEPT
        !.adds = <<"new_search">> \o [i \in 1..Len(HistoryQueries(file)) |-> "search"],
        !.ends = 1]

\* A play_video that lets an error of mark_watched out, before any report.
ReportedUnlessMarkFailed(V, c, in, url, manifest, helper) ==
    IF in.markSetting /\ c.username
       /\ MarkWatched(c, in.loginStatus, in.markStatus).err # "none"
    THEN [NoEffects EXCEPT
            !.err = MarkWatched(c, in.loginStatus, in.markStatus).err,
            !.reqs = V.reqs \o MarkWatched(c, in.loginStatus, in.markStatus).reqs,
            !.helper = helper, !.playUrl = url, !.manifest = manifest,
            !.markAttempted = TRUE]
    ELSE [NoEffects EXCEPT
            !.reqs = V.reqs \o (IF in.markSetting /\ c.username
                                THEN MarkWatched(c, in.loginStatus, in.markStatus).reqs
                                ELSE <<>>),
            !.helper = helper, !.playUrl = url, !.manifest = manifest,
            !.markAttempted = in.markSetting /\ c.username,
            !.resolved = IF in.handle > -1
                         THEN <<[handle |-> in.handle, succeeded |-> TRUE]>>
                         ELSE <<>>,
            !.played = IF in.handle > -1 THEN <<>> ELSE <<url>>]

\* play_video from the mark-watched step on, for the list item of url:
\* mark_watched when the setting and a username are there, whatever it
\* raises being logged only, then setResolvedUrl or Player().play.
Reported(V, c, in, url, manifest, helper) ==
    [NoEffects EXCEPT
        !.reqs = V.reqs \o (IF in.markSetting /\ c.username
                            THEN MarkWatched(c, in.loginStatus, in.markStatus).reqs
                            ELSE <<>>),
        !.helper = helper, !.playUrl = url, !.manifest = manifest,
        !.markAttempted = in.markSetting /\ c.username,
        !.resolved = IF in.handle > -1
                     THEN <<[handle |-> in.handle, succeeded |-> TRUE]>>
                     ELSE <<>>,
        !.played = IF in.handle > -1 THEN <<>> ELSE <<url>>]

\* A play_video that ignores the disable_dash setting.
PlayFetchedIgnoringDisable(V, c, in) ==
    IF V.err # "none"
    THEN [NoEffects EXCEPT !.err = V.err, !.reqs = V.reqs]
    ELSE IF in.hasDash /\ in.helperOk
         THEN Reported(V, c, in, DashUrl, "mpd", "available")
         ELSE IF in.nStreams = 0
              THEN [NoEffects EXCEPT !.err = "IndexError", !.reqs = V.reqs]
              ELSE Reported(V, c, in, StreamUrl(in.nStreams), "",
                            IF in.hasDash THEN "unavailable" ELSE "not_called")

\* play_video after fetch_video_information, which returned or raised V.
PlayFetched(V, c, in) ==
    IF V.err # "none"
    THEN [NoEffects EXCEPT !.err = V.err, !.reqs = V.reqs]
    ELSE IF ~in.disable_dash /\ in.hasDash
         THEN IF in.helperOk
              THEN Reported(V, c, in, DashUrl, "mpd", "available")
              ELSE IF in.nStreams = 0
                   THEN [NoEffects EXCEPT !.err = "IndexError", !.reqs = V.reqs,
                                          !.helper = "unavailable"]
                   ELSE Reported(V, c, in, StreamUrl(in.nStreams), "", "unavailable")
         ELSE IF in.nStreams = 0
              THEN [NoEffects EXCEPT !.err = "IndexError", !.reqs = V.reqs]
              ELSE Reported(V, c, in, StreamUrl(in.nStreams), "", "not_called")

\* InvidiousPlugin.play_video
PlayVideo(c, in) == PlayFetched(FetchVideoInformation(c, in.status), c, in)

KnownActions ==
    {"none", "search_menu", "new_search", "search", "play_video", "view_channel",
     "view_playlist", "user_feed", "user_subscriptions", "trending", "popular"}
UnknownActions == {"bogus", "subscribe"}

\* A dispatcher that shows the main menu for an action it does not know.
UnknownActionShowingMenu(file, c, in) == WithFile(DisplayMainMenu(c, in), file)

\* The final else of the chain of run().
UnknownAction(file, c, in) ==
    WithFile([NoEffects EXCEPT !.err = "UnknownAction"], file)

\* InvidiousPlugin.run around the branch D the action selected: the two
\* except clauses turn an HTTPError or a Timeout into one notification, and
\* anything else propagates.
Run(action, in, D) ==
    [file |-> D.file,
     out |-> [action |-> action, in |-> in,
              err |-> IF D.effects.err \in {"HttpError", "Timeout"}
                      THEN "none" ELSE D.effects.err,
              caught |-> IF D.effects.err \in {"HttpError", "Timeout"}
                         THEN D.effects.err ELSE "none",
              notifications |-> IF D.effects.err \in {"HttpError", "Timeout"}
                                THEN 1 ELSE 0,
              reqs |-> D.effects.reqs, adds |-> D.effects.adds,
              ends |-> D.effects.ends, resolved |-> D.effects.resolved,
              played |-> D.effects.played, helper |-> D.effects.helper,
              playUrl |-> D.effects.playUrl, manifest |-> D.effects.manifest,
              markAttempted |-> D.effects.markAttempted]]

\* The API client a newly constructed plugin holds.
ClientOf(in) == NewClient(in.hasAuth, in.local)

\* The queries typed in the plugin model, and the handles the host gives:
\* -1 marks an invocation that awaits no resolution.
PluginQueries == Queries \ {"b", "c"}
Handles == {-1, 0, 1}

InitPlugin ==
    /\ depth = HistoryDepth
    /\ historyFile = NoFile
    /\ pushLog = <<>>
    /\ out = IdleOut
    /\ client = IdleClient
    /\ clientLog = IdleClientLog
    /\ settings = IdleSettings
    /\ plugin = IdlePlugin
    /\ response = IdleResponse
    /\ results = IdleResults
    /\ ppc = "idle"

\* What the server answers to a list request: a failure, or a body.
ListAnswers ==
    {[status |-> st, body |-> Body(<<>>)] : st \in GetStatuses \ {"ok"}}
    \cup {[status |-> "ok", body |-> b] : b \in ListBodies}

\* run() without an action parameter
RunMainMenu ==
    \E hasAuth, popular, trending \in BOOLEAN :
        LET in == [DefaultInputs EXCEPT !.hasAuth = hasAuth, !.show_popular = popular,
                                        !.show_trending = trending]
            r == Run("none", in, WithFile(DisplayMainMenu(ClientOf(in), in), historyFile))
        IN  /\ historyFile' = r.file
            /\ out' = r.out
            /\ UNCHANGED <<depth, pushLog, clientVars, initVars, parseVars>>

\* run() with action=search_menu
RunSearchMenu ==
    LET r == Run("search_menu", DefaultInputs,
                 WithFile(DisplaySearchSubmenu(historyFile), historyFile))
    IN  /\ historyFile' = r.file
        /\ out' = r.out
        /\ UNCHANGED <<depth, pushLog, clientVars, initVars, parseVars>>

\* run() with action=new_search; the dialog returns q, "" when cancelled
RunNewSearch ==
    \E q \in PluginQueries \cup {""} :
    \E a \in IF q = "" THEN {[status |-> "ok", body |-> Body(<<>>)]} ELSE ListAnswers :
        LET in == [DefaultInputs EXCEPT !.q = q, !.status = a.status, !.body = a.body]
            r == Run("new_search", in, DisplayNewSearch(historyFile, ClientOf(in), in))
        IN  /\ historyFile' = r.file
            /\ out' = r.out
            /\ UNCHANGED <<depth, pushLog, clientVars, initVars, parseVars>>

\* run() with action=search and q: the entry of a stored query, or any other
\* non-empty q the host passes
RunSearch ==
    \E q \in PluginQueries, a \in ListAnswers, localSetting \in BOOLEAN :
        LET in == [DefaultInputs EXCEPT !.q = q, !.status = a.status, !.body = a.body,
                                        !.local = localSetting]
            r == Run("search", in, DisplaySearchResult(historyFile, ClientOf(in), in))
        IN  /\ historyFile' = r.file
            /\ out' = r.out
            /\ UNCHANGED <<depth, pushLog, clientVars, initVars, parseVars>>

\* run() with action=play_video
RunPlayVideo ==
    \E handle \in Handles, localSetting, hasAuth, markSetting, disableDash \in BOOLEAN :
    \E status \in IF localSetting THEN {"ok"} ELSE GetStatuses :
    \E hasDash \in IF status = "ok" /\ ~localSetting THEN BOOLEAN ELSE {FALSE} :
    \E nStreams \in IF status = "ok" /\ ~localSetting THEN 0..MaxStreams ELSE {1} :
    \E helperOk \in IF status = "ok" /\ ~localSetting THEN BOOLEAN ELSE {FALSE} :
    \E ls \in IF status = "ok" /\ ~localSetting /\ hasAuth /\ markSetting
              THEN LoginStatuses ELSE {"ok"} :
    \E ms \in IF status = "ok" /\ ~localSetting /\ hasAuth /\ markSetting /\ ls = "ok"
              THEN MutationStatuses ELSE {"ok"} :
        LET in == [DefaultInputs EXCEPT !.handle = handle, !.local = localSetting,
                       !.hasAuth = hasAuth, !.markSetting = markSetting,
                       !.disable_dash = disableDash, !.status = status,
                       !.hasDash = hasDash, !.nStreams = nStreams,
                       !.helperOk = helperOk, !.loginStatus = ls, !.markStatus = ms]
            r == Run("play_video", in, WithFile(PlayVideo(ClientOf(in), in), historyFile))
        IN  /\ historyFile' = r.file
            /\ out' = r.out
            /\ UNCHANGED <<depth, pushLog, clientVars, initVars, parseVars>>

\* run() with action=view_channel
RunViewChannel ==
    \E localSetting \in BOOLEAN :
    \E a \in IF localSetting THEN {[status |-> "ok", body |-> Body(<<>>)]} ELSE ListAnswers :
        LET in == [DefaultInputs EXCEPT !.local = localSetting, !.status = a.status,
                                        !.body = a.body]
            r == Run("view_channel", in,
                     WithFile(DisplayChannelList(ClientOf(in), in), historyFile))
        IN  /\ historyFile' = r.file
            /\ out' = r.out
            /\ UNCHANGED <<depth, pushLog, clientVars, initVars, parseVars>>

\* run() with action=view_playlist
RunViewPlaylist ==
    \E localSetting \in BOOLEAN :
    \E a \in IF localSetting THEN {[status |-> "ok", body |-> Body(<<>>)]} ELSE ListAnswers :
        LET in == [DefaultInputs EXCEPT !.local = localSetting, !.status = a.status,
                                        !.body = a.body]
            r == Run("view_playlist", in,
                     WithFile(DisplayPlaylistList(ClientOf(in), in), historyFile))
        IN  /\ historyFile' = r.file
            /\ out' = r.out
            /\ UNCHANGED <<depth, pushLog, clientVars, initVars, parseVars>>

\* run() with action=user_feed
RunUserFeed ==
    \E localSetting, hasAuth \in BOOLEAN :
    \E ls \in IF hasAuth THEN LoginStatuses ELSE {"ok"} :
    \E a \in IF hasAuth /\ ls = "ok" /\ ~localSetting
             THEN ListAnswers ELSE {[status |-> "ok", body |-> Body(<<>>)]} :
        LET in == [DefaultInputs EXCEPT !.local = localSetting, !.hasAuth = hasAuth,
                       !.loginStatus = ls, !.status = a.status, !.body = a.body]
            r == Run("user_feed", in,
                     WithFile(DisplaySearchResults(
                                  FetchFeed(ClientOf(in), in.loginStatus, in.status,
                                            in.body)), historyFile))
        IN  /\ historyFile' = r.file
            /\ out' = r.out
            /\ UNCHANGED <<depth, pushLog, clientVars, initVars, parseVars>>

\* run() with action=user_subscriptions
RunUserSubscriptions ==
    \E localSetting, hasAuth \in BOOLEAN :
    \E ls \in IF hasAuth THEN LoginStatuses ELSE {"ok"} :
    \E status \in IF hasAuth /\ ls = "ok" /\ ~localSetting THEN GetStatuses ELSE {"ok"} :
    \E cs \in IF hasAuth /\ ls = "ok" /\ ~localSetting /\ status = "ok"
              THEN SeqsUpTo(GetStatuses, MaxSubs) ELSE {<<>>} :
        LET in == [DefaultInputs EXCEPT !.local = localSetting, !.hasAuth = hasAuth,
                       !.loginStatus = ls, !.status = status, !.chanStatuses = cs]
            r == Run("user_subscriptions", in,
                     WithFile(DisplaySearchResults(
                                  FetchSubscribedChannels(ClientOf(in), in.loginStatus,
                                                          in.status, in.chanStatuses)),
                              historyFile))
        IN  /\ historyFile' = r.file
            /\ out' = r.out
            /\ UNCHANGED <<depth, pushLog, clientVars, initVars, parseVars>>

\* run() with action=trending or action=popular
RunSpecialList ==
    \E name \in {"trending", "popular"}, localSetting \in BOOLEAN :
    \E a \in IF localSetting THEN {[status |-> "ok", body |-> Body(<<>>)]} ELSE ListAnswers :
        LET in == [DefaultInputs EXCEPT !.local = localSetting, !.status = a.status,
                                        !.body = a.body]
            r == Run(name, in,
                     WithFile(DisplaySearchResults(
                                  FetchSpecialList(ClientOf(in), name, in.status,
                                                   in.body)), historyFile))
        IN  /\ historyFile' = r.file
            /\ out' = r.out
            /\ UNCHANGED <<depth, pushLog, clientVars, initVars, parseVars>>

\* run() with an action outside the chain
RunUnknownAction ==
    \E name \in UnknownActions, hasAuth, localSetting \in BOOLEAN :
        LET in == [DefaultInputs EXCEPT !.hasAuth = hasAuth, !.local = localSetting]
            r == Run(name, in, UnknownAction(historyFile, ClientOf(in), in))
        IN  /\ historyFile' = r.file
            /\ out' = r.out
            /\ UNCHANGED <<depth, pushLog, clientVars, initVars, parseVars>>

NextPlugin ==
    \/ RunMainMenu
    \/ RunSearchMenu
    \/ RunNewSearch
    \/ RunSearch
    \/ RunPlayVideo
    \/ RunViewChannel
    \/ RunViewPlaylist
    \/ RunUserFeed
    \/ RunUserSubscriptions
    \/ RunSpecialList
    \/ RunUnknownAction

SpecPlugin == InitPlugin /\ [][NextPlugin]_vars

Without(queries, q) == SelectSeq(queries, LAMBDA x : x # q)

\* C2 as stated: dispatching "search" with a stored query leaves the
\* persisted search history unchanged, order included.
C2_SearchLeavesHistory ==
    [][(out'.action = "search" /\ out'.in.q \in Range(HistoryQueries(historyFile)))
          => historyFile' = historyFile]_vars

\* C2 as amended: dispatching "search" or "new_search" with a non-empty
\* query q sends the search request for q and pushes q: the stored history
\* becomes q followed by the former history without q, cut to the depth, so
\* a stored query moves to the front and the other entries keep their order;
\* every other invocation leaves the history file as it is.
C2_SearchPromotesQuery ==
    [][IF out'.action \in {"search", "new_search"} /\ out'.in.q # ""
       THEN /\ HistoryQueries(historyFile')
                 = Take(<<out'.in.q>> \o Without(HistoryQueries(historyFile), out'.in.q),
                        HistoryDepth)
            /\ Len(out'.reqs) = 1
            /\ out'.reqs[1].req = "search"
       ELSE historyFile' = historyFile]_vars

\* C2 witness: "search" was dispatched with a query and the history now has
\* that query in front of another one.
C2_Witness ==
    /\ out.action = "search"
    /\ out.in.q = "q"
    /\ HistoryQueries(historyFile) = <<"q", "a">>

\* The requests of the invocation that raised HTTPError or Timeout.
HttpFailures(o) ==
    {i \in 1..Len(o.reqs) : o.reqs[i].outcome \in {"HttpError", "Timeout"}}

\* The login made by the best-effort mark_watched of play_video.
IsMarkWatchedLogin(o, i) == o.action = "play_video" /\ o.reqs[i].req = "login"

ChannelsFetched(o) ==
    Len(SelectSeq(o.reqs, LAMBDA r : r.req = "channels" /\ r.outcome = "ok"))

\* C5 as stated: when a request of an invocation fails with Timeout or
\* HttpError, the error is caught by run(), one notification is shown, no
\* add-menu-entry call has been made and end-of-listing is not called.
C5_NoEntryBeforeFailure ==
    HttpFailures(out) # {} =>
        /\ out.caught \in {"HttpError", "Timeout"}
        /\ out.notifications = 1
        /\ out.adds = <<>>
        /\ out.ends = 0

\* C5 as amended: when a request of an invocation other than the login of
\* the best-effort mark_watched fails with Timeout or HttpError, it is the
\* last request made, the error is caught by run(), one notification is
\* shown, and neither end-of-listing nor a playback collaborator is called;
\* no add-menu-entry call has been made, except in the subscriptions listing,
\* where one entry was added for each channel fetched before the failure.
\* A failed login of mark_watched is not caught by run() and shows nothing.
C5_FailureAbortsListing ==
    \A i \in HttpFailures(out) :
        IF IsMarkWatchedLogin(out, i)
        THEN /\ out.caught = "none"
             /\ out.notifications = 0
             /\ out.err = "none"
        ELSE /\ i = Len(out.reqs)
             /\ out.caught = out.reqs[i].outcome
             /\ out.err = "none"
             /\ out.notifications = 1
             /\ out.ends = 0
             /\ out.resolved = <<>>
             /\ out.played = <<>>
             /\ out.action # "user_subscriptions" => out.adds = <<>>
             /\ out.action = "user_subscriptions" => Len(out.adds) = ChannelsFetched(out)

\* C5 witness: the subscriptions listing failed at the request for the second
\* channel, after the entry of the first was added.
C5_Witness ==
    /\ out.action = "user_subscriptions"
    /\ out.caught = "Timeout"
    /\ out.notifications = 1
    /\ Len(out.reqs) = 4
    /\ Len(out.adds) = 1
    /\ out.ends = 0

\* A search whose request failed: the plain case of C5.
C5_WitnessSearch ==
    /\ out.action = "search"
    /\ out.caught = "HttpError"
    /\ out.adds = <<>>

\* C6: every play_video invocation reports to the host: with a handle > -1,
\* resolve-playback is called exactly once with that handle, with success
\* when a stream was selected and with failure otherwise, and direct-play is
\* not called; with handle -1, direct-play is called and resolve-playback is
\* never called.
C6_PlaybackAlwaysReported ==
    out.action = "play_video" =>
        IF out.in.handle > -1
        THEN /\ Len(out.resolved) = 1
             /\ out.resolved[1].handle = out.in.handle
             /\ out.resolved[1].succeeded = (out.playUrl # "")
             /\ out.played = <<>>
        ELSE /\ Len(out.played) = 1
             /\ out.resolved = <<>>

\* What play_video does report: when a stream was selected, once and with
\* success, through resolve-playback for a handle > -1 and through
\* direct-play for -1; when none was selected, nothing at all.
C6_ReportedOnlyOnSuccess ==
    out.action = "play_video" =>
        IF out.playUrl = ""
        THEN out.resolved = <<>> /\ out.played = <<>>
        ELSE IF out.in.handle > -1
             THEN /\ out.resolved = <<[handle |-> out.in.handle, succeeded |-> TRUE]>>
                  /\ out.played = <<>>
             ELSE /\ out.played = <<out.playUrl>>
                  /\ out.resolved = <<>>

\* C8: an action outside the known set raises UnknownAction for the
\* invocation, which run() does not catch; no add-menu-entry, end-of-listing,
\* resolve-playback or direct-play call and no request is made, and the
\* search history is unchanged.
C8_UnknownActionRaises ==
    [][(out'.action \notin KnownActions \cup {"idle"}) =>
          /\ out'.err = "UnknownAction"
          /\ out'.caught = "none"
          /\ out'.notifications = 0
          /\ out'.adds = <<>>
          /\ out'.ends = 0
          /\ out'.resolved = <<>>
          /\ out'.played = <<>>
          /\ out'.reqs = <<>>
          /\ historyFile' = historyFile]_vars

\* C8 witness: an unknown action was dispatched while a history is stored.
C8_Witness ==
    /\ out.action = "bogus"
    /\ out.err = "UnknownAction"
    /\ HistoryQueries(historyFile) = <<"a", "q">>

\* The invocation was play_video and its metadata request was answered.
MetadataFetched(o) ==
    /\ o.action = "play_video"
    /\ o.reqs # <<>>
    /\ o.reqs[1].req = "videos"
    /\ o.reqs[1].outcome = "ok"

\* The three conditions of DASH playback: not disabled, a manifest URL in the
\* metadata, and the capability check of the host succeeding.
DashConditions(in) == ~in.disable_dash /\ in.hasDash /\ in.helperOk

\* C11: once the metadata is fetched, play_video selects the manifest URL and
\* tags the item with manifest type "mpd" exactly when DASH is not disabled,
\* the metadata has a manifest URL and the capability check succeeds; in
\* every other case it selects the URL of the last entry of formatStreams
\* and sets no manifest type (with no entry in formatStreams there is no last
\* one: nothing is selected and IndexError is raised). The capability check
\* is made only when DASH is not disabled and a manifest URL is there.
C11_DashExactlyWhenAvailable ==
    MetadataFetched(out) =>
        /\ IF DashConditions(out.in)
           THEN out.playUrl = DashUrl /\ out.manifest = "mpd"
           ELSE IF out.in.nStreams > 0
                THEN out.playUrl = StreamUrl(out.in.nStreams) /\ out.manifest = ""
                ELSE out.playUrl = "" /\ out.manifest = "" /\ out.err = "IndexError"
        /\ (out.helper # "not_called") = (~out.in.disable_dash /\ out.in.hasDash)
        /\ (out.manifest = "mpd") = DashConditions(out.in)

\* C11 witness: DASH is disabled while the metadata has a manifest URL and
\* the capability is there, and the last of two legacy streams was selected
\* without a manifest type.
C11_Witness ==
    /\ MetadataFetched(out)
    /\ out.in.disable_dash /\ out.in.hasDash /\ out.in.helperOk
    /\ out.in.nStreams = 2
    /\ out.playUrl = StreamUrl(2)
    /\ out.manifest = ""
    /\ out.helper = "not_called"

\* The manifest was selected and tagged, with legacy streams at hand too.
C11_WitnessDash ==
    /\ MetadataFetched(out)
    /\ DashConditions(out.in)
    /\ out.in.nStreams = 2
    /\ out.playUrl = DashUrl
    /\ out.manifest = "mpd"

\* The positions of the entries of quality "high" in a thumbnail list.
HighEntries(thumbs) == {i \in 1..Len(thumbs) : thumbs[i].quality = "high"}

\* The claim's rule for the thumbnail of a video item.
FirstHighOrLast(thumbs) ==
    IF HighEntries(thumbs) # {}
    THEN thumbs[CHOOSE i \in HighEntries(thumbs) :
                    \A j \in HighEntries(thumbs) : i <= j].url
    ELSE thumbs[Len(thumbs)].url

\* C12: the thumbnail URL of every video record emitted by the parse is that
\* of the first entry of the item's videoThumbnails whose quality is "high",
\* wherever it is in the list, and that of the last entry when no entry has
\* quality "high".
C12_VideoThumbnailFirstHigh ==
    ppc = "done" =>
        \A k \in 1..Len(results.results) :
            LET item == response.items[EmittingIndex(response.items, k)]
            IN  results.results[k].type = "video" =>
                    results.results[k].thumbnail_url
                        = FirstHighOrLast(item.videoThumbnails)

\* C12 witness: the list is medium, high, high, and the URL of the second
\* entry was chosen.
C12_Witness ==
    /\ ppc = "done"
    /\ Len(response.items) = 1
    /\ Len(response.items[1].videoThumbnails) = 3
    /\ response.items[1].videoThumbnails[1].quality = "medium"
    /\ response.items[1].videoThumbnails[2].quality = "high"
    /\ response.items[1].videoThumbnails[3].quality = "high"
    /\ Len(results.results) = 1
    /\ results.results[1].thumbnail_url = Url("absolute", ThumbPath(2))

\* No entry is "high" among three, and the URL of the last one was chosen.
C12_WitnessFallback ==
    /\ ppc = "done"
    /\ Len(response.items) = 1
    /\ Len(response.items[1].videoThumbnails) = 3
    /\ HighEntries(response.items[1].videoThumbnails) = {}
    /\ Len(results.results) = 1
    /\ results.results[1].thumbnail_url = Url("absolute", ThumbPath(3))

\* play_video got as far as its mark-watched step: the metadata was fetched
\* and a stream was selected.
StreamSelected(o) == MetadataFetched(o) /\ o.playUrl # ""

\* The requests mark_watched sent in the invocation.
MarkRequests(o) ==
    SelectSeq(o.reqs, LAMBDA r : r.req \in {"login", "post auth/history"})

\* What the same invocation does when the login and the request of
\* mark_watched both succeed.
WithMarkSucceeding(in) ==
    PlayVideo(ClientOf(in), [in EXCEPT !.loginStatus = "ok", !.markStatus = "ok"])

\* C13: in play_video, once a stream is selected, mark_watched is attempted
\* exactly when the "mark watched" setting is on and the client has
\* credentials; whether it succeeds, its login fails or the server refuses
\* the request, no error leaves play_video, no notification is shown, and the
\* playback is reported to the host (resolve-playback with success for a
\* handle > -1, direct-play for -1) with the stream and manifest type it has
\* when mark_watched succeeds.
C13_MarkWatchedBestEffort ==
    StreamSelected(out) =>
        /\ out.markAttempted = (out.in.markSetting /\ out.in.hasAuth)
        /\ (MarkRequests(out) # <<>>) = out.markAttempted
        /\ out.err = "none"
        /\ out.caught = "none"
        /\ out.notifications = 0
        /\ out.playUrl = WithMarkSucceeding(out.in).playUrl
        /\ out.manifest = WithMarkSucceeding(out.in).manifest
        /\ out.resolved = WithMarkSucceeding(out.in).resolved
        /\ out.played = WithMarkSucceeding(out.in).played
        /\ IF out.in.handle > -1
           THEN /\ out.resolved = <<[handle |-> out.in.handle, succeeded |-> TRUE]>>
                /\ out.played = <<>>
           ELSE /\ out.played = <<out.playUrl>>
                /\ out.resolved = <<>>

\* C13 witness: the login of mark_watched failed and the playback was
\* resolved with success all the same.
C13_Witness ==
    /\ StreamSelected(out)
    /\ out.markAttempted
    /\ MarkRequests(out) = <<Request("login", "HttpError", FALSE)>>
    /\ out.in.handle = 1
    /\ out.resolved = <<[handle |-> 1, succeeded |-> TRUE]>>
    /\ out.notifications = 0

\* The server refused the mark request and the stream was played directly.
C13_WitnessRefused ==
    /\ StreamSelected(out)
    /\ MarkRequests(out) = <<Request("login", "ok", FALSE),
                             Request("post auth/history", "not_ok", FALSE)>>
    /\ out.in.handle = -1
    /\ out.played = <<out.playUrl>>

\* The setting is on without credentials: nothing was attempted.
C13_WitnessNoCredentials ==
    /\ StreamSelected(out)
    /\ out.in.markSetting /\ ~out.in.hasAuth
    /\ ~out.markAttempted
    /\ Len(out.reqs) = 1

\* The actions whose handling sends a GET request to the server.
FetchingActions == KnownActions \ {"none", "search_menu"}

\* The invocation succeeds when "local" is disabled: the server answers
\* every request with success and a body, the client has the credentials the
\* action needs, a query is given to a search, and play_video has a stream
\* to select.
SucceedsWithoutLocal(o) ==
    /\ o.action \in FetchingActions
    /\ o.in.status = "ok" /\ ~o.in.body.empty
    /\ o.in.loginStatus = "ok"
    /\ \A i \in 1..Len(o.in.chanStatuses) : o.in.chanStatuses[i] = "ok"
    /\ o.action \in {"user_feed", "user_subscriptions"} => o.in.hasAuth
    /\ o.action \in {"search", "new_search"} => o.in.q # ""
    /\ o.action = "play_video" => (DashConditions(o.in) \/ o.in.nStreams > 0)

\* The GET requests of the invocation that were sent and answered.
GetsAnswered(o) ==
    SelectSeq(o.reqs, LAMBDA r : r.req \notin {"login", "post auth/history"}
                                 /\ r.outcome = "ok")

\* C14: "local" only adds the parameter local=true to a GET request: an
\* invocation that succeeds with "local" disabled sends its GET requests with
\* the parameter and succeeds with "local" enabled too, whether or not the
\* operation passes query parameters of its own.
C14_LocalNeverChangesOutcome ==
    (SucceedsWithoutLocal(out) /\ out.in.local) =>
        /\ out.err = "none"
        /\ out.caught = "none"
        /\ GetsAnswered(out) # <<>>
        /\ \A i \in 1..Len(GetsAnswered(out)) : GetsAnswered(out)[i].local

\* What holds instead: with "local" disabled these invocations succeed; with
\* it enabled only the search, the one GET that passes query parameters,
\* is sent (with local=true) and succeeds, and every other one raises
\* TypeError before any GET request is sent.
C14_LocalBreaksParameterlessGets ==
    SucceedsWithoutLocal(out) =>
        IF ~out.in.local
        THEN /\ out.err = "none" /\ out.caught = "none"
             /\ GetsAnswered(out) # <<>>
             /\ \A i \in 1..Len(GetsAnswered(out)) : ~GetsAnswered(out)[i].local
        ELSE IF out.action \in {"search", "new_search"}
             THEN /\ out.err = "none" /\ out.caught = "none"
                  /\ GetsAnswered(out) = <<Request("search", "ok", TRUE)>>
             ELSE /\ out.err = "TypeError"
                  /\ GetsAnswered(out) = <<>>
                  /\ out.adds = <<>> /\ out.ends = 0
                  /\ out.resolved = <<>> /\ out.played = <<>>

\* A channel listing with "local" enabled raised TypeError without a request.
C14_WitnessTypeError ==
    /\ out.action = "view_channel"
    /\ SucceedsWithoutLocal(out)
    /\ out.in.local
    /\ out.err = "TypeError"
    /\ out.reqs = <<>>

\* In autodetection with "local" enabled every liveness probe raises, so no
\* candidate is ever selected.
C14_AutodetectionFailsWithLocal ==
    (plugin.walked /\ settings.local) => plugin.err = "AutodetectionFailed"

====
